---------------------------- MODULE Spec2Model ----------------------------
(***************************************************************************)
(* whoopsie: a bot that scrapes the NRC event-notification page of a day,  *)
(* queues one toot (Mastodon) and one skeet (Bluesky) per event in a       *)
(* SQLite store, and posts the oldest pending entry of each queue.         *)
(*                                                                         *)
(* The model follows src/whoopsie.py: the three tables of `schema`, the    *)
(* BotStore operations, the pure formatting functions, and the two         *)
(* commands `scrape` and `toot`, each cut into steps at its store          *)
(* transactions and remote calls.  One invocation runs at a time (Spec);   *)
(* SpecScrapeCrash and SpecCrash let it be killed between two steps.       *)
(* SpecOrder and SpecPost run toot on a queue that scrapes have filled,    *)
(* SpecRace runs two toot processes at once, and SpecCalls calls the pure  *)
(* functions on their own.                                                 *)
(*                                                                         *)
(* Strings are sequences of tokens (a token is a character or an opaque    *)
(* run of characters such as a url).  An Optional value is <<>> (None) or  *)
(* <<x>>.                                                                  *)
(***************************************************************************)
EXTENDS Naturals, Sequences, FiniteSets

(***************************************************************************)
(* Bounds of the model.                                                    *)
(***************************************************************************)
MaxTime == 1        \* CURRENT_TIMESTAMP ranges over 0..MaxTime
MaxCrashes == 1     \* invocations killed in one behaviour
MaxTail == 2        \* characters varied at the end of a long text

Urls == {"u1", "u2"}            \* the pages of two days (two ymd arguments)
EventIds == {"en1", "en2"}      \* ids matching en\d+
Channels == {"toots", "skeets"} \* the two queue tables

None == <<>>
Some(x) == <<x>>

(***************************************************************************)
(* Small helpers on sequences.                                             *)
(***************************************************************************)
Range(s) == {s[i] : i \in DOMAIN s}
Min(a, b) == IF a <= b THEN a ELSE b
Take(s, n) == SubSeq(s, 1, Min(n, Len(s)))
Last(s) == s[Len(s)]

(***************************************************************************)
(* EventInfo                                                               *)
(***************************************************************************)
\* A field that extract left None, or matched empty, is "": both are falsy.
Truthy(s) == s # ""

\* Faulty variant: the city is preferred to the facility.
location_CityFirst(info) ==
    IF Truthy(info.city) /\ Truthy(info.state)
    THEN <<info.city, ", ", info.state>>
    ELSE IF Truthy(info.city) THEN <<info.city>>
    ELSE IF Truthy(info.facility) /\ Truthy(info.state)
    THEN <<info.facility, " (", info.state, ")">>
    ELSE IF Truthy(info.facility) THEN <<info.facility>>
    ELSE IF Truthy(info.state) THEN <<info.state>>
    ELSE <<"Location unknown">>

location(info) ==
    IF Truthy(info.facility) /\ Truthy(info.state)
    THEN <<info.facility, " (", info.state, ")">>
    ELSE IF Truthy(info.facility) THEN <<info.facility>>
    ELSE IF Truthy(info.city) /\ Truthy(info.state)
    THEN <<info.city, ", ", info.state>>
    ELSE IF Truthy(info.city) THEN <<info.city>>
    ELSE IF Truthy(info.state) THEN <<info.state>>
    ELSE <<"Location unknown">>

format(info) ==
    <<info.headline, "\n">> \o location(info)
        \o <<", ", IF Truthy(info.event_date) THEN info.event_date ELSE "Date unknown", "\n">>
        \o info.content

(***************************************************************************)
(* The fetched page: a sequence of event divs.  A div carries its id and   *)
(* the text extract() reads; a div without the "Event Text" marker (or     *)
(* without the two-part split) makes extract raise.                        *)
(***************************************************************************)
InfoA == [event_date |-> "01/02/2024", facility |-> "Plant", city |-> "Town",
          state |-> "TX", headline |-> "H1", content |-> <<"a">>]
Malformed == [event_date |-> "", facility |-> "", city |-> "",
              state |-> "", headline |-> "", content |-> <<>>]

Divs == [id : EventIds, info : {InfoA, Malformed}]

\* The pages the site can serve: any sequence of divs with distinct ids.
Pages ==
    {p \in UNION {[1..n -> Divs] : n \in 0..Cardinality(EventIds)} :
        \A i, j \in DOMAIN p : p[i].id = p[j].id => i = j}

\* What requests.get can return: the page, or an error status with no page.
Responses ==
    {[status_code |-> 200, text |-> p] : p \in Pages}
        \cup {[status_code |-> 404, text |-> <<>>]}

extract(div) == div.info
ExtractRaises(div) == div.info = Malformed

(***************************************************************************)
(* Channel formatters                                                      *)
(***************************************************************************)
IsSpace(ch) == ch \in {" ", "\n", "\r", "\t"}

\* text.replace("\r\n", "\n"): every "\r" that stands right before a "\n"
\* goes.  The text is worked in two halves, cut between two characters that
\* are not such a pair.
RECURSIVE ReplaceCRLF(_)
ReplaceCRLF(s) ==
    IF Len(s) <= 1 THEN s
    ELSE IF Len(s) = 2 THEN (IF s = <<"\r", "\n">> THEN <<"\n">> ELSE s)
    ELSE LET h == Len(s) \div 2
             m == IF s[h] = "\r" /\ s[h + 1] = "\n" THEN h + 1 ELSE h
         IN  ReplaceCRLF(SubSeq(s, 1, m)) \o ReplaceCRLF(SubSeq(s, m + 1, Len(s)))

RECURSIVE LStrip(_)
LStrip(s) == IF Len(s) > 0 /\ IsSpace(s[1]) THEN LStrip(Tail(s)) ELSE s

RECURSIVE RStrip(_)
RStrip(s) ==
    IF Len(s) > 0 /\ IsSpace(s[Len(s)]) THEN RStrip(SubSeq(s, 1, Len(s) - 1)) ELSE s

Strip(s) == RStrip(LStrip(s))

Ellipsis == "..."   \* stands for the one character U+2026

\* Faulty variant: the ellipsis is appended from the budget on (>=).
format_toot_Geq(text, url, maxlen) ==
    LET url_len == 23
        max_text_len == maxlen - url_len - 3
        t == ReplaceCRLF(text)
        ellipsis == IF Len(t) >= max_text_len THEN <<Ellipsis>> ELSE <<>>
    IN  Strip(Take(t, max_text_len)) \o ellipsis \o <<"\n">> \o url

format_toot(text, url, maxlen) ==
    LET url_len == 23
        max_text_len == maxlen - url_len - 3
        t == ReplaceCRLF(text)
        ellipsis == IF Len(t) > max_text_len THEN <<Ellipsis>> ELSE <<>>
    IN  Strip(Take(t, max_text_len)) \o ellipsis \o <<"\n">> \o url

\* Faulty variant: the ellipsis is added to maxlen characters of the text.
truncate_OneMore(text, maxlen) ==
    IF Len(text) > maxlen THEN Take(text, maxlen) \o <<Ellipsis>> ELSE text

truncate(text, maxlen) ==
    IF Len(text) > maxlen THEN Take(text, maxlen - 1) \o <<Ellipsis>> ELSE text

TootMaxLen == 500
SkeetMaxLen == 300

Link(url, id) == <<url, "#", id>>

PendingToot(id, content) == [event_id |-> id, content |-> content]
PendingSkeet(id, content, link) == [event_id |-> id, content |-> content, link |-> link]

\* The loop of page_as_toots raises as soon as one extract raises.
PageRaises(content) == \E i \in DOMAIN content : ExtractRaises(content[i])

page_as_toots(content, url) ==
    [i \in DOMAIN content |->
        PendingToot(content[i].id,
                    format_toot(format(extract(content[i])),
                                Link(url, content[i].id), TootMaxLen))]

page_as_skeets(content, url) ==
    [i \in DOMAIN content |->
        PendingSkeet(content[i].id,
                     truncate(format(extract(content[i])), SkeetMaxLen),
                     Link(url, content[i].id))]

(***************************************************************************)
(* BotStore.  A table is the sequence of its rows in rowid order.          *)
(***************************************************************************)
Ids(table) == {table[i].event_id : i \in DOMAIN table}

\* Faulty variant: the WHERE pending filter is missing.
FirstPending_NoFilter(table) ==
    IF table = <<>> THEN 0
    ELSE CHOOSE i \in DOMAIN table : \A j \in DOMAIN table :
            \/ table[i].timestamp < table[j].timestamp
            \/ table[i].timestamp = table[j].timestamp /\ i <= j

\* Faulty variant: ORDER BY timestamp DESC, the newest pending row first.
FirstPending_Newest(table) ==
    LET P == {i \in DOMAIN table : table[i].pending}
    IN  IF P = {} THEN 0
        ELSE CHOOSE i \in P : \A j \in P :
                \/ table[i].timestamp > table[j].timestamp
                \/ table[i].timestamp = table[j].timestamp /\ i >= j

\* Faulty variant: the ORDER BY is missing, the pending row of the smallest
\* rowid comes first.
FirstPending_ByRowid(table) ==
    LET P == {i \in DOMAIN table : table[i].pending}
    IN  IF P = {} THEN 0 ELSE CHOOSE i \in P : \A j \in P : i <= j

\* SELECT ... WHERE pending ORDER BY timestamp ASC LIMIT 1: SQLite scans in
\* rowid order and sorts on timestamp, so among equal timestamps the row of
\* the smallest rowid comes first.
FirstPending(table) ==
    LET P == {i \in DOMAIN table : table[i].pending}
    IN  IF P = {} THEN 0
        ELSE CHOOSE i \in P : \A j \in P :
                \/ table[i].timestamp < table[j].timestamp
                \/ table[i].timestamp = table[j].timestamp /\ i <= j

next_toot(table) ==
    LET i == FirstPending(table)
    IN  IF i = 0 THEN None
        ELSE Some(PendingToot(table[i].event_id, table[i].content))

next_skeet(table) ==
    LET i == FirstPending(table)
    IN  IF i = 0 THEN None
        ELSE Some(PendingSkeet(table[i].event_id, table[i].content, table[i].link))

\* Faulty variant: the lookup never finds the row.
last_visit_Never(visits, url) == None

\* Table urls is the set of its url values: the program never reads the
\* visited column but for the presence of the row.
last_visit(visits, url) == IF url \in visits THEN Some(url) ELSE None

\* INSERT OR REPLACE INTO urls VALUES(:url, CURRENT_TIMESTAMP), per url
record_visit(visits, batch) == visits \cup Range(batch)

\* Faulty variant: INSERT OR REPLACE, which deletes the row of that event_id and
\* inserts the new one, pending again.
InsertOrReplace(table, row) ==
    Append(SelectSeq(table, LAMBDA r : r.event_id # row.event_id), row)

\* Faulty variant: a plain INSERT into a table without the UNIQUE constraint.
InsertDuplicate(table, row) == Append(table, row)

\* One INSERT OR IGNORE: the UNIQUE constraint on event_id makes the insert
\* of an existing id do nothing.
InsertOrIgnore(table, row) ==
    IF row.event_id \in Ids(table) THEN table ELSE Append(table, row)

\* executemany: one INSERT OR IGNORE per element, in order, in one
\* transaction; stamps[i] is CURRENT_TIMESTAMP when the i-th one runs.
RECURSIVE save_toots(_, _, _)
save_toots(table, batch, stamps) ==
    IF Len(batch) = 0 THEN table
    ELSE save_toots(
            InsertOrIgnore(table,
                [event_id |-> batch[1].event_id, timestamp |-> stamps[1],
                 content |-> batch[1].content, pending |-> TRUE]),
            Tail(batch), Tail(stamps))

RECURSIVE save_skeets(_, _, _)
save_skeets(table, batch, stamps) ==
    IF Len(batch) = 0 THEN table
    ELSE save_skeets(
            InsertOrIgnore(table,
                [event_id |-> batch[1].event_id, timestamp |-> stamps[1],
                 content |-> batch[1].content, link |-> batch[1].link,
                 pending |-> TRUE]),
            Tail(batch), Tail(stamps))

\* Faulty variant: the delivered row is deleted from the queue.
record_toot_Delete(table, entry) ==
    SelectSeq(table, LAMBDA r : r.event_id # entry.event_id)

\* Faulty variant: the WHERE clause is missing.
record_toot_All(table, entry) ==
    [i \in DOMAIN table |-> [table[i] EXCEPT !.pending = FALSE]]

\* UPDATE toots SET pending = FALSE WHERE event_id = ?
record_toot(table, entry) ==
    [i \in DOMAIN table |->
        IF table[i].event_id = entry.event_id
        THEN [table[i] EXCEPT !.pending = FALSE] ELSE table[i]]

record_skeet(table, entry) ==
    [i \in DOMAIN table |->
        IF table[i].event_id = entry.event_id
        THEN [table[i] EXCEPT !.pending = FALSE] ELSE table[i]]

\* The clock readings of n statements run one after the other from time t.
Stamps(t, n) ==
    {s \in [1..n -> t..MaxTime] : \A i \in 1..n : i > 1 => s[i-1] <= s[i]}


(***************************************************************************)
(* State                                                                   *)
(***************************************************************************)
VARIABLES
    toots,      \* table toots, in rowid order
    skeets,     \* table skeets, in rowid order
    urls,       \* table urls: the urls it holds
    clock,      \* CURRENT_TIMESTAMP
    pc,         \* the running invocation's next step, "idle" when none runs
    args,       \* the command and arguments of the running invocation
    response,   \* scrape: the 200 response, once fetched
    toot,       \* toot: the local `toot`
    skeet,      \* toot: the local `skeet`
    net,        \* the remote calls the running invocation has made
    posted,     \* history: successful delivery calls per channel and event_id
    crashes,    \* history: invocations killed so far
    lost,       \* history: per channel, ids delivered by an invocation killed before record_*
    retry,      \* history, kept while no invocation has been killed: per channel,
                \* the entry whose delivery call raised and was not delivered since
    other,      \* a second invocation, suspended: its pc, args, locals and net
    call,       \* a function called on its own: its name and arguments
    result      \* what that call returned, None before it returns

store == <<toots, skeets, urls>>
locals == <<response, toot, skeet>>
history == <<posted, crashes, lost, retry>>
outside == <<other, call, result>>
vars == <<toots, skeets, urls, clock, pc, args, response, toot, skeet, net,
          posted, crashes, lost, retry, other, call, result>>

NoArgs == [cmd |-> "none", url |-> "", dry_run |-> FALSE,
           post_to_mastodon |-> FALSE, post_to_bluesky |-> FALSE]

\* No second invocation runs.
NoOther == [pc |-> "idle", args |-> NoArgs, response |-> None, toot |-> None,
            skeet |-> None, net |-> <<>>]

\* No function is called on its own.
NoCall == [fn |-> "none"]

\* BotStore.from_path on a fresh file: executescript(schema) creates the
\* three tables, empty.
Init ==
    /\ toots = <<>>
    /\ skeets = <<>>
    /\ urls = {}
    /\ clock = 0
    /\ pc = "idle"
    /\ args = NoArgs
    /\ response = None
    /\ toot = None
    /\ skeet = None
    /\ net = <<>>
    /\ posted = [c \in Channels |-> [e \in EventIds |-> 0]]
    /\ crashes = 0
    /\ lost = [c \in Channels |-> {}]
    /\ retry = [c \in Channels |-> None]
    /\ other = NoOther
    /\ call = NoCall
    /\ result = None

\* The invocation ends: the command returns, or an exception leaves it.
\* Nothing but the store outlives the process.
End ==
    /\ pc' = "idle"
    /\ args' = NoArgs
    /\ response' = None
    /\ toot' = None
    /\ skeet' = None
    /\ net' = <<>>

\* The invocation goes on to step p.
Goto(p) ==
    /\ pc' = p
    /\ UNCHANGED args

\* The wall clock moves on between two steps.
Tick ==
    /\ clock < MaxTime
    /\ clock' = clock + 1
    /\ UNCHANGED <<store, pc, args, locals, net, history, outside>>

(***************************************************************************)
(* scrape                                                                  *)
(***************************************************************************)
\* The command starts: BotStore.from_path re-runs the schema (CREATE TABLE
\* IF NOT EXISTS changes no existing table) and the url is built from ymd.
ScrapeStart ==
    /\ pc = "idle"
    /\ \E u \in Urls :
        args' = [NoArgs EXCEPT !.cmd = "scrape", !.url = u]
    /\ pc' = "last_visit"
    /\ UNCHANGED <<store, clock, locals, net, history, outside>>

\* if store.last_visit(url): return
ScrapeLastVisit ==
    /\ pc = "last_visit"
    /\ IF last_visit(urls, args.url) # None
       THEN End
       ELSE Goto("get") /\ UNCHANGED <<locals, net>>
    /\ UNCHANGED <<store, clock, history, outside>>

\* response = requests.get(url): a 200 with some page, another status, or
\* a transport error (raised).
ScrapeGet ==
    /\ pc = "get"
    /\ \/ /\ \E r \in Responses : response' = Some(r)
          /\ net' = Append(net, "GET")
          /\ Goto("status_code")
          /\ UNCHANGED <<toot, skeet>>
       \/ End
    /\ UNCHANGED <<store, clock, history, outside>>

\* Faulty variant: the status is printed and the command goes on.
ScrapeStatusCode_NoReturn ==
    /\ pc = "status_code"
    /\ Goto("save_toots")
    /\ UNCHANGED <<store, clock, locals, net, history, outside>>

\* if response.status_code != 200: print(response.status_code); return
ScrapeStatusCode ==
    /\ pc = "status_code"
    /\ IF response[1].status_code # 200
       THEN End
       ELSE Goto("save_toots") /\ UNCHANGED <<locals, net>>
    /\ UNCHANGED <<store, clock, history, outside>>

\* Faulty variant: a fragment whose extraction fails is skipped, and the
\* others are saved.
ScrapeSaveToots_SkipMalformed ==
    /\ pc = "save_toots"
    /\ LET text == SelectSeq(response[1].text, LAMBDA d : ~ExtractRaises(d)) IN
        /\ \E stamps \in Stamps(clock, Len(text)) :
            /\ toots' = save_toots(toots, page_as_toots(text, args.url), stamps)
            /\ clock' = IF Len(text) = 0 THEN clock ELSE Last(stamps)
        /\ Goto("save_skeets")
        /\ UNCHANGED <<locals, net>>
    /\ UNCHANGED <<skeets, urls, history, outside>>

\* Faulty variant: the visit is recorded together with the toots, before the
\* skeets are saved.
ScrapeSaveToots_VisitFirst ==
    /\ pc = "save_toots"
    /\ LET text == response[1].text IN
       IF PageRaises(text)
       THEN End /\ UNCHANGED <<toots, urls, clock>>
       ELSE /\ \E stamps \in Stamps(clock, Len(text)) :
                /\ toots' = save_toots(toots, page_as_toots(text, args.url), stamps)
                /\ clock' = IF Len(text) = 0 THEN clock ELSE Last(stamps)
            /\ urls' = record_visit(urls, <<args.url>>)
            /\ Goto("save_skeets")
            /\ UNCHANGED <<locals, net>>
    /\ UNCHANGED <<skeets, history, outside>>

\* toots = page_as_toots(response.text, url); store.save_toots(toots)
ScrapeSaveToots ==
    /\ pc = "save_toots"
    /\ LET text == response[1].text IN
       IF PageRaises(text)
       THEN End /\ UNCHANGED <<toots, clock>>
       ELSE /\ \E stamps \in Stamps(clock, Len(text)) :
                /\ toots' = save_toots(toots, page_as_toots(text, args.url), stamps)
                /\ clock' = IF Len(text) = 0 THEN clock ELSE Last(stamps)
            /\ Goto("save_skeets")
            /\ UNCHANGED <<locals, net>>
    /\ UNCHANGED <<skeets, urls, history, outside>>

\* skeets = page_as_skeets(response.text, url); store.save_skeets(skeets)
ScrapeSaveSkeets ==
    /\ pc = "save_skeets"
    /\ LET text == response[1].text IN
       IF PageRaises(text)
       THEN End /\ UNCHANGED <<skeets, clock>>
       ELSE /\ \E stamps \in Stamps(clock, Len(text)) :
                /\ skeets' = save_skeets(skeets, page_as_skeets(text, args.url), stamps)
                /\ clock' = IF Len(text) = 0 THEN clock ELSE Last(stamps)
            /\ Goto("record_visit")
            /\ UNCHANGED <<locals, net>>
    /\ UNCHANGED <<toots, urls, history, outside>>

\* Faulty variant: a page without events is not recorded as visited.
ScrapeRecordVisit_SkipEmpty ==
    /\ pc = "record_visit"
    /\ urls' = IF response[1].text = <<>> THEN urls
               ELSE record_visit(urls, <<args.url>>)
    /\ End
    /\ UNCHANGED <<toots, skeets, clock, history, outside>>

\* store.record_visit([url]); the command returns.
ScrapeRecordVisit ==
    /\ pc = "record_visit"
    /\ urls' = record_visit(urls, <<args.url>>)
    /\ End
    /\ UNCHANGED <<toots, skeets, clock, history, outside>>

(***************************************************************************)
(* toot                                                                    *)
(***************************************************************************)
\* The command starts: the store is opened and the secrets are read.
TootStart ==
    /\ pc = "idle"
    /\ \E d \in BOOLEAN, m \in BOOLEAN, b \in BOOLEAN :
        args' = [NoArgs EXCEPT !.cmd = "toot", !.dry_run = d,
                               !.post_to_mastodon = m, !.post_to_bluesky = b]
    /\ pc' = "next_toot"
    /\ UNCHANGED <<store, clock, locals, net, history, outside>>

\* Faulty variant: the claim reserves the row, by marking it.
TootNextToot_Reserve ==
    /\ pc = "next_toot"
    /\ toot' = next_toot(toots)
    /\ toots' = IF toot' = None THEN toots ELSE record_toot(toots, toot'[1])
    /\ IF toot' # None /\ args.post_to_mastodon
       THEN IF args.dry_run THEN Goto("print_toot") ELSE Goto("status_post")
       ELSE Goto("next_skeet")
    /\ UNCHANGED <<skeets, urls, clock, response, skeet, net, history, outside>>

\* toot = store.next_toot(); if toot and post_to_mastodon: the client is
\* built, and dry_run picks the branch.
TootNextToot ==
    /\ pc = "next_toot"
    /\ toot' = next_toot(toots)
    /\ IF toot' # None /\ args.post_to_mastodon
       THEN IF args.dry_run THEN Goto("print_toot") ELSE Goto("status_post")
       ELSE Goto("next_skeet")
    /\ UNCHANGED <<store, clock, response, skeet, net, history, outside>>

\* print(toot.content)
TootPrintToot ==
    /\ pc = "print_toot"
    /\ Goto("next_skeet")
    /\ UNCHANGED <<store, clock, locals, net, history, outside>>

\* receipt = client.status_post(toot.content): returns, or raises.
TootStatusPost ==
    /\ pc = "status_post"
    /\ \/ /\ posted' = [posted EXCEPT !["toots"][toot[1].event_id] = @ + 1]
          /\ retry' = [retry EXCEPT !["toots"] = None]
          /\ net' = Append(net, "status_post")
          /\ Goto("record_toot")
          /\ UNCHANGED locals
       \/ /\ retry' = IF crashes = 0
                      THEN [retry EXCEPT !["toots"] = Some(toot[1].event_id)]
                      ELSE retry
          /\ End
          /\ UNCHANGED posted
    /\ UNCHANGED <<store, clock, crashes, lost, outside>>

\* Faulty variant: the UPDATE runs outside `with self.connection` and is
\* never committed.
TootRecordToot_NoCommit ==
    /\ pc = "record_toot"
    /\ Goto("next_skeet")
    /\ UNCHANGED <<store, clock, locals, net, history, outside>>

\* store.record_toot(toot); print(receipt["url"])
TootRecordToot ==
    /\ pc = "record_toot"
    /\ toots' = record_toot(toots, toot[1])
    /\ Goto("next_skeet")
    /\ UNCHANGED <<skeets, urls, clock, locals, net, history, outside>>

\* skeet = store.next_skeet(); if skeet and post_to_bluesky: ...
TootNextSkeet ==
    /\ pc = "next_skeet"
    /\ LET s == next_skeet(skeets) IN
       IF s # None /\ args.post_to_bluesky
       THEN /\ skeet' = s
            /\ Goto("login")
            /\ UNCHANGED <<response, toot, net>>
       ELSE End
    /\ UNCHANGED <<store, clock, history, outside>>

\* bsky = atproto.Client(); bsky.login(handle, password): returns, or
\* raises; then the card is built and dry_run picks the branch.
TootLogin ==
    /\ pc = "login"
    /\ \/ /\ net' = Append(net, "login")
          /\ IF args.dry_run THEN Goto("print_skeet") ELSE Goto("send_post")
          /\ UNCHANGED locals
       \/ End
    /\ UNCHANGED <<store, clock, history, outside>>

\* print(skeet.content); print(card); the command returns.
TootPrintSkeet ==
    /\ pc = "print_skeet"
    /\ End
    /\ UNCHANGED <<store, clock, history, outside>>

\* receipt = bsky.send_post(...): returns, or raises.
TootSendPost ==
    /\ pc = "send_post"
    /\ \/ /\ posted' = [posted EXCEPT !["skeets"][skeet[1].event_id] = @ + 1]
          /\ retry' = [retry EXCEPT !["skeets"] = None]
          /\ net' = Append(net, "send_post")
          /\ Goto("record_skeet")
          /\ UNCHANGED locals
       \/ /\ retry' = IF crashes = 0
                      THEN [retry EXCEPT !["skeets"] = Some(skeet[1].event_id)]
                      ELSE retry
          /\ End
          /\ UNCHANGED posted
    /\ UNCHANGED <<store, clock, crashes, lost, outside>>

\* store.record_skeet(skeet); print(receipt.uri); the command returns.
TootRecordSkeet ==
    /\ pc = "record_skeet"
    /\ skeets' = record_skeet(skeets, skeet[1])
    /\ End
    /\ UNCHANGED <<toots, urls, clock, history, outside>>

(***************************************************************************)
(* The process is killed, or a store transaction fails, before the step at *)
(* pc: nothing of that step is committed.                                  *)
(***************************************************************************)
CrashScrape ==
    /\ args.cmd = "scrape"
    /\ crashes < MaxCrashes
    /\ crashes' = crashes + 1
    /\ retry' = [c \in Channels |-> None]
    /\ End
    /\ UNCHANGED <<store, clock, posted, lost, outside>>

CrashToot ==
    /\ args.cmd = "toot"
    /\ crashes < MaxCrashes
    /\ crashes' = crashes + 1
    /\ lost' = IF pc = "record_toot"
               THEN [lost EXCEPT !["toots"] = @ \cup {toot[1].event_id}]
               ELSE IF pc = "record_skeet"
               THEN [lost EXCEPT !["skeets"] = @ \cup {skeet[1].event_id}]
               ELSE lost
    /\ retry' = [c \in Channels |-> None]
    /\ End
    /\ UNCHANGED <<store, clock, posted, outside>>

\* Invocations that run to completion, one after the other.
Next ==
    \/ Tick
    \/ ScrapeStart
    \/ ScrapeLastVisit
    \/ ScrapeGet
    \/ ScrapeStatusCode
    \/ ScrapeSaveToots
    \/ ScrapeSaveSkeets
    \/ ScrapeRecordVisit
    \/ TootStart
    \/ TootNextToot
    \/ TootPrintToot
    \/ TootStatusPost
    \/ TootRecordToot
    \/ TootNextSkeet
    \/ TootLogin
    \/ TootPrintSkeet
    \/ TootSendPost
    \/ TootRecordSkeet

Spec == Init /\ [][Next]_vars

\* The same, where a scrape may be killed between two of its steps.
NextScrapeCrash ==
    \/ Next
    \/ CrashScrape

SpecScrapeCrash == Init /\ [][NextScrapeCrash]_vars

\* The same, where any invocation may be killed between two of its steps.
NextCrash ==
    \/ Next
    \/ CrashScrape
    \/ CrashToot

SpecCrash == Init /\ [][NextCrash]_vars

(***************************************************************************)
(* toot invocations on a queue that earlier scrapes have filled.           *)
(***************************************************************************)
QueueIds == EventIds \cup {"en3"}

\* The rows scrape writes for the event of id e of page u, at time t.
TootRow(u, e, t) ==
    [event_id |-> e, timestamp |-> t,
     content |-> format_toot(format(InfoA), Link(u, e), TootMaxLen),
     pending |-> TRUE]

SkeetRow(u, e, t) ==
    [event_id |-> e, timestamp |-> t,
     content |-> truncate(format(InfoA), SkeetMaxLen),
     link |-> Link(u, e), pending |-> TRUE]

\* The insertions that filled a queue: distinct ids in rowid order, each
\* with the CURRENT_TIMESTAMP of its insertion.  That is the wall clock,
\* which may be set back between two scrapes, and rows of one batch may
\* share a timestamp: timestamps need not grow with the rowid.
Queues(ids, times) ==
    {q \in UNION {[1..n -> [event_id : ids, timestamp : times]] :
                    n \in 0..Cardinality(ids)} :
        \A i, j \in DOMAIN q : q[i].event_id = q[j].event_id => i = j}

\* The state after scrapes of page u1 have filled both queues by q and no
\* toot has run yet.
InitQueue(q, ids) ==
    /\ toots = [i \in DOMAIN q |-> TootRow("u1", q[i].event_id, q[i].timestamp)]
    /\ skeets = [i \in DOMAIN q |-> SkeetRow("u1", q[i].event_id, q[i].timestamp)]
    /\ urls = {}
    /\ clock = 0
    /\ pc = "idle"
    /\ args = NoArgs
    /\ response = None
    /\ toot = None
    /\ skeet = None
    /\ net = <<>>
    /\ posted = [c \in Channels |-> [e \in ids |-> 0]]
    /\ crashes = 0
    /\ lost = [c \in Channels |-> {}]
    /\ retry = [c \in Channels |-> None]
    /\ other = NoOther
    /\ call = NoCall
    /\ result = None

InitOrder ==
    \E q \in Queues(QueueIds, 1..Cardinality(QueueIds)) : InitQueue(q, QueueIds)

\* toot invocations only, one after the other.
NextToot ==
    \/ TootStart
    \/ TootNextToot
    \/ TootPrintToot
    \/ TootStatusPost
    \/ TootRecordToot
    \/ TootNextSkeet
    \/ TootLogin
    \/ TootPrintSkeet
    \/ TootSendPost
    \/ TootRecordSkeet

SpecOrder == InitOrder /\ [][NextToot]_vars

(***************************************************************************)
(* Two toot invocations at once: two processes of the command on the same  *)
(* store file.  One runs, the other is suspended; the scheduler may switch *)
(* between two steps.  Each store operation is one transaction, so the     *)
(* steps interleave at the granularity of the actions.                     *)
(***************************************************************************)
Switch ==
    /\ pc # "idle" \/ other.pc # "idle"
    /\ pc' = other.pc
    /\ args' = other.args
    /\ response' = other.response
    /\ toot' = other.toot
    /\ skeet' = other.skeet
    /\ net' = other.net
    /\ other' = [pc |-> pc, args |-> args, response |-> response,
                 toot |-> toot, skeet |-> skeet, net |-> net]
    /\ UNCHANGED <<store, clock, history, call, result>>

InitRace ==
    \E q \in Queues(EventIds, 1..Cardinality(EventIds)) : InitQueue(q, EventIds)

NextRace ==
    \/ NextToot
    \/ Switch

SpecRace == InitRace /\ [][NextRace]_vars

(***************************************************************************)
(* The pure functions, each called on its own.  Here a token is one        *)
(* character, but for the url.                                             *)
(***************************************************************************)
Chars == {"a", " ", "\r", "\n", Ellipsis}

Fill(n) == [i \in 1..n |-> "a"]

\* The texts whose length is near n: a run of "a", after nothing or a
\* blank, before up to MaxTail characters of any kind.
TextsNear(n) ==
    {head \o Fill(k) \o tail :
        head \in {<<>>, <<" ">>},
        k \in (IF n > MaxTail THEN n - MaxTail - 1 ELSE 0)..(n + 1),
        tail \in UNION {[1..m -> Chars] : m \in 0..MaxTail}}

Infos ==
    [event_date : {"", InfoA.event_date}, facility : {"", InfoA.facility},
     city : {"", InfoA.city}, state : {"", InfoA.state},
     headline : {InfoA.headline}, content : {InfoA.content}]

Calls ==
    {[fn |-> "format_toot", text |-> t, url |-> Link("u1", "en1"), maxlen |-> TootMaxLen] :
        t \in TextsNear(TootMaxLen - 23 - 3)}
    \cup UNION {{[fn |-> "truncate", text |-> t, maxlen |-> n] : t \in TextsNear(n)} :
                    n \in {1, 2, SkeetMaxLen}}
    \cup {[fn |-> "location", info |-> i] : i \in Infos}

InitCalls ==
    /\ toots = <<>>
    /\ skeets = <<>>
    /\ urls = {}
    /\ clock = 0
    /\ pc = "idle"
    /\ args = NoArgs
    /\ response = None
    /\ toot = None
    /\ skeet = None
    /\ net = <<>>
    /\ posted = [c \in Channels |-> [e \in EventIds |-> 0]]
    /\ crashes = 0
    /\ lost = [c \in Channels |-> {}]
    /\ retry = [c \in Channels |-> None]
    /\ other = NoOther
    /\ call \in Calls
    /\ result = None

CallFormatToot ==
    /\ call.fn = "format_toot"
    /\ result = None
    /\ result' = Some(format_toot(call.text, call.url, call.maxlen))
    /\ UNCHANGED <<store, clock, pc, args, locals, net, history, other, call>>

CallTruncate ==
    /\ call.fn = "truncate"
    /\ result = None
    /\ result' = Some(truncate(call.text, call.maxlen))
    /\ UNCHANGED <<store, clock, pc, args, locals, net, history, other, call>>

CallLocation ==
    /\ call.fn = "location"
    /\ result = None
    /\ result' = Some(location(call.info))
    /\ UNCHANGED <<store, clock, pc, args, locals, net, history, other, call>>

NextCalls ==
    \/ CallFormatToot
    \/ CallTruncate
    \/ CallLocation

SpecCalls == InitCalls /\ [][NextCalls]_vars

(***************************************************************************)
(* toot invoked again and again by its scheduler, after the last scrape    *)
(* that added entries, with every remote call returning.                   *)
(***************************************************************************)
InitPost ==
    \E q \in Queues(EventIds, 1..Cardinality(EventIds)) : InitQueue(q, EventIds)

StatusPostReturns == TootStatusPost /\ pc' = "record_toot"
LoginReturns == TootLogin /\ pc' # "idle"
SendPostReturns == TootSendPost /\ pc' = "record_skeet"

\* An invocation that is to deliver on channel c.
TootStartOn(c) ==
    /\ TootStart
    /\ ~args'.dry_run
    /\ IF c = "toots" THEN args'.post_to_mastodon ELSE args'.post_to_bluesky

\* The steps of the invocation that runs.
TootRuns ==
    \/ TootNextToot
    \/ TootPrintToot
    \/ StatusPostReturns
    \/ TootRecordToot
    \/ TootNextSkeet
    \/ LoginReturns
    \/ TootPrintSkeet
    \/ SendPostReturns
    \/ TootRecordSkeet

NextPost ==
    \/ TootStart
    \/ TootRuns

\* A started invocation runs to its end, and the scheduler starts toot for
\* each channel, without dry_run, again and again.
SpecPost ==
    /\ InitPost
    /\ [][NextPost]_vars
    /\ WF_vars(TootRuns)
    /\ \A c \in Channels : SF_vars(TootStartOn(c))

(***************************************************************************)
(* Properties                                                              *)
(***************************************************************************)
Table(c) == IF c = "toots" THEN toots ELSE skeets

\* The row of event_id e in the table is there and marked delivered.
Delivered(table, e) == \E i \in DOMAIN table : table[i].event_id = e /\ ~table[i].pending

\* The row of event_id e in the table is there and pending.
Pending(table, e) == \E i \in DOMAIN table : table[i].event_id = e /\ table[i].pending

\* One row per event_id.
UniqueIds(table) ==
    \A i, j \in DOMAIN table : table[i].event_id = table[j].event_id => i = j

\* Every row of `old` is a row of `new`, unchanged and with its rowid.
KeepsRows(old, new) == Len(old) <= Len(new) /\ SubSeq(new, 1, Len(old)) = old

\* The event_id claimNext returns, "" when it returns None.
ClaimedId(entry) == IF entry = None THEN "" ELSE entry[1].event_id

PageIds(text) == {text[i].id : i \in DOMAIN text}

\* The step that commits save_toots, and the one that commits save_skeets.
SavesToots == pc = "save_toots" /\ pc' = "save_skeets"
SavesSkeets == pc = "save_skeets" /\ pc' = "record_visit"

(* C1: over invocations of scrape and toot that run to completion one after
   the other, where a fetch may return a non-200 status and a delivery call
   may raise, every event_id is delivered successfully at most once to
   Mastodon and at most once to Bluesky. *)
C1_AtMostOnce ==
    \A c \in Channels, e \in EventIds : posted[c][e] <= 1

\* An event delivered on both channels, whose id a later page brings again:
\* save_toots has just run on that page.
C1_Witness ==
    /\ args.cmd = "scrape"
    /\ pc = "save_skeets"
    /\ \E e \in PageIds(response[1].text) :
        /\ posted["toots"][e] = 1
        /\ posted["skeets"][e] = 1

(* C2: if the delivery call for an entry succeeded and the invocation was
   killed before record_toot / record_skeet committed, no later invocation
   delivers that entry to that channel a second time. *)
C2_NoRedeliveryAfterLostRecord ==
    \A c \in Channels : \A e \in lost[c] : posted[c][e] <= 1

(* C3: once record_toot / record_skeet has set pending to false for an
   entry, no step sets it back to true (also not a save of the same event_id
   by a re-scrape), and next_toot / next_skeet never returns that entry. *)
C3_DeliveredStaysDelivered ==
    [][\A e \in EventIds :
          /\ Delivered(toots, e) =>
                Delivered(toots', e) /\ ClaimedId(next_toot(toots')) # e
          /\ Delivered(skeets, e) =>
                Delivered(skeets', e) /\ ClaimedId(next_skeet(skeets')) # e]_vars

\* Both saves have run on a page that brings an id both tables hold as
\* delivered, while another entry is pending.
C3_Witness ==
    /\ pc = "record_visit"
    /\ \E e \in PageIds(response[1].text) :
        /\ Delivered(toots, e)
        /\ Delivered(skeets, e)
    /\ next_toot(toots) # None

(* C4: save_toots / save_skeets is idempotent, first write wins: each table
   holds one row per event_id; a save keeps every existing row as it is
   (content, link, pending, timestamp) and leaves exactly the old ids and the
   batch's ids in the table; and saving the same list a second time gives the
   table the first save gave. *)
C4_IdempotentSave ==
    [][/\ UniqueIds(toots') /\ UniqueIds(skeets')
       /\ SavesToots =>
            LET batch == page_as_toots(response[1].text, args.url) IN
            /\ KeepsRows(toots, toots')
            /\ Ids(toots') = Ids(toots) \cup PageIds(response[1].text)
            /\ \A again \in Stamps(clock', Len(batch)) :
                    save_toots(toots', batch, again) = toots'
       /\ SavesSkeets =>
            LET batch == page_as_skeets(response[1].text, args.url) IN
            /\ KeepsRows(skeets, skeets')
            /\ Ids(skeets') = Ids(skeets) \cup PageIds(response[1].text)
            /\ \A again \in Stamps(clock', Len(batch)) :
                    save_skeets(skeets', batch, again) = skeets'
      ]_vars

\* save_toots has run with an entry whose event_id the table already held
\* with another content, delivered: the row is the first one written.
C4_Witness ==
    /\ args.cmd = "scrape"
    /\ pc = "save_skeets"
    /\ \E i \in DOMAIN response[1].text, j \in DOMAIN toots :
        /\ toots[j].event_id = response[1].text[i].id
        /\ toots[j].content # page_as_toots(response[1].text, args.url)[i].content
        /\ ~toots[j].pending

(* C5: a url gets its visited marker only when every event extracted from
   the fetched page has a row in toots and a row in skeets, and no row ever
   leaves a table afterwards, also when a scrape is killed between two of its
   steps: record_visit never commits before save_toots and save_skeets. *)
C5_VisitedOnlyAfterSaved ==
    [][/\ \A u \in urls' \ urls :
            /\ u = args.url
            /\ PageIds(response[1].text) \subseteq Ids(toots') \cap Ids(skeets')
       /\ Ids(toots) \subseteq Ids(toots')
       /\ Ids(skeets) \subseteq Ids(skeets')
       /\ urls \subseteq urls']_vars

\* A page with events is marked visited, and a killed scrape has left an
\* event in toots that skeets lacks.
C5_Witness ==
    /\ crashes > 0
    /\ \E k \in DOMAIN skeets : skeets[k].link[1] \in urls
    /\ Ids(toots) \ Ids(skeets) # {}

(* C6: a scrape of a url that has a visited marker is a no-op: it makes no
   fetch, adds no row to toots or skeets and changes no row; the store a
   later toot reads is the one it would have read without it. *)
C6_VisitedScrapeIsNoOp ==
    [][(args.cmd = "scrape" /\ args.url \in urls) =>
            /\ pc' \in {pc, "idle"}
            /\ net = <<>> /\ net' = <<>>
            /\ UNCHANGED <<store, posted>>]_vars

\* A scrape is at its last_visit lookup for a visited url while entries are
\* pending.
C6_Witness ==
    /\ pc = "last_visit"
    /\ args.url \in urls
    /\ next_toot(toots) # None
    /\ next_skeet(skeets) # None

(* C7: when the fetch returns a non-200 status the command returns with the
   store untouched (no visited marker, no row in toots or skeets), and a
   scrape of a url without a visited marker goes on to the fetch: the next
   scrape of that url fetches again. *)
C7_FetchErrorLeavesStore ==
    [][/\ (pc = "status_code" /\ response[1].status_code # 200) =>
            /\ pc' \in {pc, "idle"}
            /\ UNCHANGED store
            /\ last_visit(urls', args.url) = None
       /\ (pc = "last_visit" /\ last_visit(urls, args.url) = None) =>
            pc' \in {pc, "get"}]_vars

\* The fetch has returned 404 for a url while the other url is visited and
\* has queued entries.
C7_Witness ==
    /\ pc = "status_code"
    /\ response[1].status_code = 404
    /\ net = <<"GET">>
    /\ urls # {}
    /\ toots # <<>>

(* C8: when a scrape stopped after save_toots / save_skeets and before
   record_visit, a later scrape of the same page with the same body (every
   entry of the batch is in the table already, as this page wrote it) saves
   again without changing the table: no duplicate row, no changed row; and
   whatever toot invocations ran in between, no entry is delivered twice. *)
C8_RescrapeAfterStop ==
    [][/\ SavesToots =>
            LET batch == page_as_toots(response[1].text, args.url) IN
            (\A i \in DOMAIN batch : \E j \in DOMAIN toots :
                /\ toots[j].event_id = batch[i].event_id
                /\ toots[j].content = batch[i].content)
            => toots' = toots
       /\ SavesSkeets =>
            LET batch == page_as_skeets(response[1].text, args.url) IN
            (\A i \in DOMAIN batch : \E j \in DOMAIN skeets :
                /\ skeets[j].event_id = batch[i].event_id
                /\ skeets[j].link = batch[i].link)
            => skeets' = skeets
       /\ \A c \in Channels, e \in EventIds : posted'[c][e] <= 1]_vars

\* After a scrape was killed, a scrape of the same url has saved the same
\* page again: its entries were in both tables as this url wrote them, and
\* one was delivered on both channels in between.
C8_Witness ==
    /\ crashes > 0
    /\ pc = "record_visit"
    /\ response[1].text # <<>>
    /\ \A i \in DOMAIN response[1].text :
        \E j \in DOMAIN toots, k \in DOMAIN skeets :
            /\ toots[j].event_id = response[1].text[i].id
            /\ toots[j].content = page_as_toots(response[1].text, args.url)[i].content
            /\ skeets[k].event_id = response[1].text[i].id
            /\ skeets[k].link = Link(args.url, response[1].text[i].id)
    /\ \E e \in PageIds(response[1].text) :
        /\ Delivered(toots, e) /\ posted["toots"][e] = 1
        /\ Delivered(skeets, e) /\ posted["skeets"][e] = 1

(* C9: when a delivery call raises, the claimed entry is neither marked
   delivered nor removed: it stays pending, and until it is delivered
   next_toot / next_skeet returns that same entry, whatever other pending
   entries the queue holds. *)
C9_RetrySameEntry ==
    \A c \in Channels :
        retry[c] # None =>
            /\ Pending(Table(c), retry[c][1])
            /\ ClaimedId(IF c = "toots" THEN next_toot(toots) ELSE next_skeet(skeets))
                    = retry[c][1]

\* The delivery of an entry raised, a scrape added a younger pending entry,
\* and the next toot invocation has claimed the same entry again.
C9_Witness ==
    /\ pc = "status_post"
    /\ retry["toots"] # None
    /\ toot[1].event_id = retry["toots"][1]
    /\ \E i, j \in DOMAIN toots :
        /\ toots[i].event_id = retry["toots"][1]
        /\ toots[j].pending
        /\ toots[i].timestamp < toots[j].timestamp

(* C10: a toot invocation with dry_run changes nothing in the store and
   makes no remote call to Mastodon or Bluesky. *)
C10_DryRunNoEffect ==
    [][(args.cmd = "toot" /\ args.dry_run) =>
            /\ UNCHANGED <<store, posted>>
            /\ net' = <<>>]_vars

(* C11: next_toot / next_skeet returns None exactly when its table has no
   pending row, and otherwise a pending row whose timestamp no pending row
   undercuts; over successive rounds of claim and record_toot / record_skeet
   the entries are delivered in timestamp order, whatever the order of their
   insertion: no delivered row is younger than a pending one. *)
C11_OldestFirst ==
    \A c \in Channels :
        LET table == Table(c)
            entry == IF c = "toots" THEN next_toot(toots) ELSE next_skeet(skeets)
        IN  /\ entry = None <=> ~\E i \in DOMAIN table : table[i].pending
            /\ entry # None =>
                    \E i \in DOMAIN table :
                        /\ table[i].event_id = entry[1].event_id
                        /\ table[i].content = entry[1].content
                        /\ table[i].pending
                        /\ \A j \in DOMAIN table :
                                table[j].pending => table[i].timestamp <= table[j].timestamp
            /\ \A i, j \in DOMAIN table :
                    (~table[i].pending /\ table[j].pending)
                        => table[i].timestamp <= table[j].timestamp

\* Three entries with timestamps T1 < T2 < T3, inserted in another order:
\* two rounds have delivered T1's and T2's, and the third claim has returned
\* T3's.
C11_Witness ==
    /\ pc = "status_post"
    /\ Len(toots) = 3
    /\ toots[2].timestamp < toots[3].timestamp
    /\ toots[3].timestamp < toots[1].timestamp
    /\ ~toots[2].pending /\ ~toots[3].pending
    /\ toot[1].event_id = toots[1].event_id

(* C12: in a toot invocation with both channels enabled, a delivery error on
   one channel does not keep the other channel from its claim, delivery and
   record in that invocation: the invocation does not end at the Mastodon
   delivery call, whose return or raise is followed by the Bluesky claim,
   and when the Bluesky login or delivery runs, Mastodon's entry has been
   delivered and recorded. *)
C12_ChannelsIndependent ==
    [][(/\ args.cmd = "toot"
        /\ args.post_to_mastodon /\ args.post_to_bluesky
        /\ ~args.dry_run) =>
            /\ pc = "status_post" => pc' # "idle"
            /\ (pc \in {"login", "send_post"} /\ toot # None) =>
                    Delivered(toots, toot[1].event_id)]_vars

(* C13: with two toot invocations running at once on one store, a claim
   reserves nothing: the step of next_toot / next_skeet leaves the store as it
   is, so the claimed row is still pending and is what a claim by the other
   invocation returns.  (The witness is the race: both have claimed the same
   entry and both deliveries have succeeded before either record_toot.) *)
C13_ClaimReservesNothing ==
    [][/\ (pc = "next_toot" /\ pc' # pc /\ UNCHANGED other) =>
            /\ UNCHANGED store
            /\ toot' = next_toot(toots')
       /\ (pc = "next_skeet" /\ pc' = "login" /\ UNCHANGED other) =>
            /\ UNCHANGED store
            /\ skeet' = next_skeet(skeets')]_vars

\* Both invocations stand between their successful status_post and their
\* record_toot with the same entry, which is still pending: it has been
\* delivered twice to Mastodon.
C13_Witness ==
    /\ pc = "record_toot"
    /\ other.pc = "record_toot"
    /\ toot = other.toot
    /\ Pending(toots, toot[1].event_id)
    /\ posted["toots"][toot[1].event_id] = 2

\* The table holds exactly one row of event_id e, and it is pending.
OnePendingRow(table, e) ==
    /\ Cardinality({i \in DOMAIN table : table[i].event_id = e}) = 1
    /\ Pending(table, e)

(* C14: a scrape of an unvisited url whose fetch returned 200 with a page
   of well-formed events of pairwise distinct ids E runs save_toots,
   save_skeets and record_visit and returns with the url visited; each save
   adds, for every id of E its table did not hold, exactly one row, pending,
   and nothing else; with E empty no row is added and the url is still
   marked visited. *)
C14_ScrapeEnqueuesPage ==
    [][(args.cmd = "scrape" /\ response # None /\ response[1].status_code = 200
            /\ ~PageRaises(response[1].text)) =>
         LET E == PageIds(response[1].text) IN
         /\ pc = "status_code" => pc' \in {pc, "save_toots"}
         /\ pc = "save_toots" =>
                /\ pc' \in {pc, "save_skeets"}
                /\ SavesToots =>
                    /\ \A e \in E \ Ids(toots) : OnePendingRow(toots', e)
                    /\ Len(toots') = Len(toots) + Cardinality(E \ Ids(toots))
         /\ pc = "save_skeets" =>
                /\ pc' \in {pc, "record_visit"}
                /\ SavesSkeets =>
                    /\ \A e \in E \ Ids(skeets) : OnePendingRow(skeets', e)
                    /\ Len(skeets') = Len(skeets) + Cardinality(E \ Ids(skeets))
         /\ pc = "record_visit" =>
                /\ pc' \in {pc, "idle"}
                /\ pc' = "idle" =>
                    /\ last_visit(urls', args.url) # None
                    /\ UNCHANGED <<toots, skeets>>
                    /\ \A e \in E :
                        /\ Cardinality({i \in DOMAIN toots' : toots'[i].event_id = e}) = 1
                        /\ Cardinality({i \in DOMAIN skeets' : skeets'[i].event_id = e}) = 1
      ]_vars

\* Both saves have run on a page of two events of an unvisited url: one id
\* was in both tables already, delivered, and the other has got its one
\* pending row in each.
C14_Witness ==
    /\ pc = "record_visit"
    /\ args.url \notin urls
    /\ Len(response[1].text) = 2
    /\ \E e \in PageIds(response[1].text) :
        /\ Delivered(toots, e) /\ Delivered(skeets, e)
    /\ \E e \in PageIds(response[1].text) :
        /\ OnePendingRow(toots, e) /\ OnePendingRow(skeets, e)
    /\ Len(toots) = 2 /\ Len(skeets) = 2

\* What format_toot returned, without the final newline and the link.
NonLink(r, url) == SubSeq(r, 1, Len(r) - Len(url) - 1)

EndsWithEllipsis(s) == Len(s) > 0 /\ Last(s) = Ellipsis

(* C15 as claimed: the non-link portion of what format_toot(text, url, 500)
   returns, its ellipsis included, is at most 500 - 23 - 3 characters long
   and ends with the ellipsis iff the text given is longer than that; what
   truncate(text, maxlen) returns is at most maxlen characters long and ends
   with the ellipsis iff the text is longer than maxlen. *)
C15_TruncationLaw ==
    result # None =>
        /\ call.fn = "format_toot" =>
            LET budget == call.maxlen - 23 - 3
                body == NonLink(result[1], call.url)
            IN  /\ Len(body) <= budget
                /\ EndsWithEllipsis(body) <=> Len(call.text) > budget
        /\ call.fn = "truncate" =>
            /\ Len(result[1]) <= call.maxlen
            /\ EndsWithEllipsis(result[1]) <=> Len(call.text) > call.maxlen

(* C15 amended: the non-link portion is at most 500 - 23 - 3 characters
   of text and, iff the text is longer than that after every "\r\n" became
   "\n", one ellipsis after them (so up to one character more than the
   budget, the whole toot staying below 500 with the link counted as 23);
   a text within the budget comes back stripped, with nothing appended.
   truncate returns at most maxlen characters: the text itself when it is
   no longer than maxlen, and otherwise maxlen characters ending with the
   ellipsis. *)
C15_TruncationLawAmended ==
    result # None =>
        /\ call.fn = "format_toot" =>
            LET budget == call.maxlen - 23 - 3
                body == NonLink(result[1], call.url)
                t == ReplaceCRLF(call.text)
            IN  /\ result[1] = body \o <<"\n">> \o call.url
                /\ Len(body) + 1 + 23 <= call.maxlen - 1
                /\ Len(t) > budget =>
                    /\ EndsWithEllipsis(body)
                    /\ Len(body) - 1 <= budget
                    /\ \E k \in 0..budget :
                        SubSeq(body, 1, Len(body) - 1) = SubSeq(t, k + 1, k + Len(body) - 1)
                /\ Len(t) <= budget => body = Strip(t)
        /\ call.fn = "truncate" =>
            /\ Len(result[1]) <= call.maxlen
            /\ Len(call.text) <= call.maxlen => result[1] = call.text
            /\ Len(call.text) > call.maxlen =>
                /\ Len(result[1]) = call.maxlen
                /\ EndsWithEllipsis(result[1])
                /\ SubSeq(result[1], 1, call.maxlen - 1) = SubSeq(call.text, 1, call.maxlen - 1)

\* format_toot has returned a non-link portion of one character more than
\* the budget, for a text longer than the budget.
C15_Witness ==
    /\ call.fn = "format_toot"
    /\ result # None
    /\ Len(call.text) > call.maxlen - 23 - 3
    /\ Len(NonLink(result[1], call.url)) = call.maxlen - 23 - 3 + 1

(* C16: for every combination of facility, city and state present or absent
   (and any event_date), location returns the first form whose fields are
   present among "{facility} ({state})", "{facility}", "{city}, {state}",
   "{city}", "{state}", and "Location unknown" when none is; the result is
   never empty. *)
C16_FallbackLocation ==
    (call.fn = "location" /\ result # None) =>
        LET f == call.info.facility
            c == call.info.city
            s == call.info.state
            r == result[1]
        IN  /\ (f # "" /\ s # "") => r = <<f, " (", s, ")">>
            /\ (f # "" /\ s = "") => r = <<f>>
            /\ (f = "" /\ c # "" /\ s # "") => r = <<c, ", ", s>>
            /\ (f = "" /\ c # "" /\ s = "") => r = <<c>>
            /\ (f = "" /\ c = "" /\ s # "") => r = <<s>>
            /\ (f = "" /\ c = "" /\ s = "") => r = <<"Location unknown">>
            /\ r # <<>>
            /\ \A i \in DOMAIN r : r[i] # ""

\* location has returned "{city}, {state}" for an event without facility
\* and without date.
C16_Witness ==
    /\ call.fn = "location"
    /\ result # None
    /\ call.info.facility = ""
    /\ call.info.event_date = ""
    /\ result[1] = <<InfoA.city, ", ", InfoA.state>>

\* Between the tables old and new, nothing but the pending flag of the rows
\* of event_id e has changed, and that one to false.
OnlyFlagOf(old, new, e) ==
    /\ Len(new) = Len(old)
    /\ \A i \in DOMAIN old :
        /\ new[i].event_id = old[i].event_id
        /\ new[i].timestamp = old[i].timestamp
        /\ new[i].content = old[i].content
        /\ new[i].pending = (old[i].pending /\ old[i].event_id # e)
    /\ (e \notin Ids(old) \/ Delivered(old, e)) => new = old

(* C17: record_toot / record_skeet changes nothing but the pending flag of
   the row of that event_id in its own table, and does not raise: timestamp
   and content of the row stay, no other row changes, a row already delivered
   or an id the table does not hold leaves the table as it is, and the other
   channel's table (with its row of the same event_id) and the urls are
   untouched.  The last conjunct applies the operation, between two
   invocations, to every id, also to one no table holds. *)
C17_RecordChangesOnlyFlag ==
    [][/\ (pc = "record_toot" /\ UNCHANGED other) =>
            /\ pc' \in {pc, "next_skeet"}
            /\ pc' = "next_skeet" =>
                /\ OnlyFlagOf(toots, toots', toot[1].event_id)
                /\ UNCHANGED <<skeets, urls>>
       /\ (pc = "record_skeet" /\ UNCHANGED other) =>
            /\ pc' \in {pc, "idle"}
            /\ pc' = "idle" =>
                /\ OnlyFlagOf(skeets, skeets', skeet[1].event_id)
                /\ \A i \in DOMAIN skeets : skeets'[i].link = skeets[i].link
                /\ UNCHANGED <<toots, urls>>
       /\ pc = "idle" =>
            \A e \in QueueIds :
                /\ OnlyFlagOf(toots, record_toot(toots, PendingToot(e, <<>>)), e)
                /\ OnlyFlagOf(skeets, record_skeet(skeets, PendingSkeet(e, <<>>, <<>>)), e)
      ]_vars

\* Two invocations have delivered the same entry and both have run
\* record_toot on it, the second on the row already delivered; the table
\* holds another row, still pending, and the skeets row of that event_id is
\* pending.
C17_Witness ==
    /\ pc = "next_skeet"
    /\ other.pc = "next_skeet"
    /\ toot # None
    /\ toot = other.toot
    /\ posted["toots"][toot[1].event_id] = 2
    /\ Delivered(toots, toot[1].event_id)
    /\ Pending(skeets, toot[1].event_id)
    /\ \E i \in DOMAIN toots : toots[i].pending

\* Every row of old is in new under its rowid, with its event_id, timestamp
\* and content, and no pending flag has gone from false to true.
RowsStay(old, new) ==
    /\ Len(old) <= Len(new)
    /\ \A i \in DOMAIN old :
        /\ new[i].event_id = old[i].event_id
        /\ new[i].timestamp = old[i].timestamp
        /\ new[i].content = old[i].content
        /\ new[i].pending => old[i].pending

(* C18: over any sequence of scrape and toot invocations no row of toots,
   skeets or urls is ever deleted: the event_ids of each table and the
   visited urls only grow; opening the store (the schema is run again at the
   start of every command) changes nothing; toot changes nothing but pending
   flags; and only scrape adds rows, without touching a pending flag. *)
C18_NothingDeleted ==
    [][/\ RowsStay(toots, toots')
       /\ RowsStay(skeets, skeets')
       /\ Ids(toots) \subseteq Ids(toots')
       /\ Ids(skeets) \subseteq Ids(skeets')
       /\ urls \subseteq urls'
       /\ pc = "idle" => UNCHANGED store
       /\ args.cmd = "toot" =>
            /\ Len(toots') = Len(toots)
            /\ Len(skeets') = Len(skeets)
            /\ \A i \in DOMAIN skeets : skeets'[i].link = skeets[i].link
            /\ urls' = urls
       /\ args.cmd = "scrape" =>
            /\ KeepsRows(toots, toots')
            /\ KeepsRows(skeets, skeets')
       /\ (Len(toots') > Len(toots) \/ Len(skeets') > Len(skeets) \/ urls' # urls)
            => args.cmd = "scrape"]_vars

\* Both pages are visited, both tables hold both events, and toot
\* invocations have delivered every entry: all rows are still there.
C18_Witness ==
    /\ pc = "idle"
    /\ urls = Urls
    /\ Ids(toots) = EventIds /\ Ids(skeets) = EventIds
    /\ \A e \in EventIds : Delivered(toots, e) /\ Delivered(skeets, e)

\* How many times the running invocation has made the remote call named m.
Made(m) == Cardinality({i \in DOMAIN net : net[i] = m})

(* C19: when toot is invoked again and again for a channel, without
   dry_run and with every remote call returning, an invocation makes at most
   one delivery call per channel and marks at most one row of it, the oldest
   pending one; and once no scrape adds entries any more, every pending entry
   of the channel is eventually delivered, and the queue is eventually left
   without a pending row for good. *)
C19_QueueDrains ==
    /\ [](Made("status_post") <= 1 /\ Made("send_post") <= 1)
    /\ [][/\ pc = "record_toot" =>
                /\ toot = next_toot(toots)
                /\ OnlyFlagOf(toots, toots', toot[1].event_id)
          /\ pc = "record_skeet" =>
                /\ skeet = next_skeet(skeets)
                /\ OnlyFlagOf(skeets, skeets', skeet[1].event_id)]_vars
    /\ \A c \in Channels : \A e \in EventIds :
            Pending(Table(c), e) ~> Delivered(Table(c), e)
    /\ \A c \in Channels :
            <>[](\A i \in DOMAIN Table(c) : ~Table(c)[i].pending)

\* The second invocation for Mastodon has delivered the younger of two
\* entries and is about to record it; the older one is delivered.
C19_Witness ==
    /\ pc = "record_toot"
    /\ net = <<"status_post">>
    /\ Len(toots) = 2
    /\ \E i, j \in DOMAIN toots :
        /\ toots[i].timestamp < toots[j].timestamp
        /\ ~toots[i].pending
        /\ toots[j].pending
        /\ toot[1].event_id = toots[j].event_id

(* C20: when the extraction of one fragment of the fetched page raises,
   scrape ends before any store operation: no row is added to toots or skeets
   for any event of the page, the well-formed ones included, and the url is
   not recorded as visited, so that every later scrape of the url goes on to
   the fetch again. *)
C20_MalformedPageAborts ==
    [][/\ (/\ args.cmd = "scrape"
           /\ response # None
           /\ \E i \in DOMAIN response[1].text : ExtractRaises(response[1].text[i])) =>
            /\ UNCHANGED store
            /\ last_visit(urls', args.url) = None
            /\ pc = "save_toots" => pc' \in {pc, "idle"}
            /\ pc' \in {pc, "save_toots", "idle"}
       /\ (pc = "last_visit" /\ last_visit(urls, args.url) = None) =>
            pc' \in {pc, "get"}]_vars

\* The fetch has returned a page of a well-formed event, new to both
\* tables, and a malformed one; page_as_toots is about to run.
C20_Witness ==
    /\ pc = "save_toots"
    /\ Len(response[1].text) = 2
    /\ ~ExtractRaises(response[1].text[1])
    /\ ExtractRaises(response[1].text[2])
    /\ response[1].text[1].id \notin Ids(toots) \cup Ids(skeets)
    /\ args.url \notin urls

=============================================================================
